---- MODULE Spec2Model ----
(***************************************************************************)
(* Model of the glue code of the transformers fork:                        *)
(*   - agents/llm_engine.py : get_clean_message_list, HfApiEngine and      *)
(*     TransformersEngine stop-sequence stripping;                         *)
(*   - utils/versions.py    : require_version and its wrappers;            *)
(*   - the processors exercised by tests/test_processor_clip.py and        *)
(*     tests/wav2vec2_with_lm/test_processor_wav2vec2_with_lm.py.          *)
(*                                                                         *)
(* Python strings are sequences of characters (one-character TLA+ strings, *)
(* or one token for a literal chunk of a message).  Python dicts are       *)
(* functions; dict objects live in a heap and lists hold references, so    *)
(* that in-place mutation and aliasing behave as they do in Python.        *)
(***************************************************************************)
EXTENDS Integers, Sequences, FiniteSets, TLC

VARIABLES
    pc,                \* position of the caller: "ready", "returned", "raised"
    heap,              \* object store: sequence of dict objects, id = index
    message_list,      \* caller's list: sequence of object ids
    role_conversions,  \* caller's mapping role -> role
    msg_out,           \* outcome of get_clean_message_list
    engine,            \* which engine is called: "HfApiEngine", "TransformersEngine"
    llm_output,        \* raw text the model produces (external input)
    stop_sequences,    \* the stop_sequences argument: [is_none, list of strings]
    response,          \* outcome of the engine's __call__
    requirement,       \* the requirement argument of require_version
    hint,              \* the hint argument: [is_none, text]
    site_packages,     \* installed distributions: package name -> version string
    version_info,      \* sys.version_info[:3]
    legacy_packaging,  \* TRUE when packaging still has LegacyVersion (< 22)
    rv_out,            \* outcome of require_version
    current_processor, \* the component a processor call is forwarded to
    context,           \* "outside" or "inside" as_target_processor()
    calls,             \* the processor calls made so far: [input, inside, result]
    features,          \* the list of features given to default_data_collator
    batch              \* the batch it returns: key -> tensor

msgVars == <<heap, message_list, role_conversions, msg_out>>
engineVars == <<engine, llm_output, stop_sequences, response>>

versionVars == <<requirement, hint, site_packages, version_info,
                 legacy_packaging, rv_out>>

processorVars == <<current_processor, context, calls>>

collatorVars == <<features, batch>>

vars == <<pc, msgVars, engineVars, versionVars, processorVars, collatorVars>>

None == "None"
NoOutcome == [exc |-> "none", ret |-> <<>>]
NoStopSequences == [is_none |-> TRUE, list |-> <<>>]
NoHint == [is_none |-> TRUE, text |-> <<>>]
NoVersionOutcome == [exc |-> "none", msg |-> <<>>, compared |-> FALSE]

\* The variables of the components a specification does not exercise.
EngineIdle ==
    /\ engine = None /\ llm_output = <<>> /\ stop_sequences = NoStopSequences
    /\ response = NoOutcome

MsgIdle ==
    /\ heap = <<>> /\ message_list = <<>> /\ role_conversions = <<>>
    /\ msg_out = NoOutcome

ProcessorIdle ==
    /\ current_processor = None /\ context = None /\ calls = <<>>

CollatorIdle ==
    /\ features = <<>> /\ batch = <<>>

VersionIdle ==
    /\ requirement = <<>> /\ hint = NoHint /\ site_packages = <<>>
    /\ version_info = <<>> /\ legacy_packaging = FALSE
    /\ rv_out = NoVersionOutcome

----------------------------------------------------------------------------
(* Bounds of the model *)

MaxMsgs == 3
MaxEngineMsgs == 1
MaxOutputLen == 3
MaxStopLen == 2
MaxStops == 2

----------------------------------------------------------------------------
(* agents/llm_engine.py : MessageRole and get_clean_message_list *)

MessageRoles == {"user", "assistant", "system", "tool-call", "tool-response"}

Separator == <<"\n=======\n">>

llama_role_conversions == [r \in {"tool-response"} |-> "user"]


\* Variant of DeepCopy without the copy (message_list = message_list): the
\* loop then works on the caller's own dicts.
DeepCopyAliased(h, ml) == [heap |-> h, list |-> ml]

\* deepcopy(message_list): every distinct dict reachable from the list is
\* copied once (the memo keeps aliasing), the copy of object i is object
\* Len(h) + i, and the new list refers to the copies.
DeepCopy(h, ml) ==
    [heap |-> h \o h, list |-> [i \in 1..Len(ml) |-> ml[i] + Len(h)]]

\* The body of the for loop, from message index i on, on heap h with the
\* list built so far in final (a sequence of object ids).
RECURSIVE CleanLoop(_, _, _, _, _)
CleanLoop(h, ml, conv, i, final) ==
    IF i > Len(ml)
    THEN [heap |-> h, exc |-> "none", ret |-> final]
    ELSE
      LET id == ml[i] IN
      IF DOMAIN h[id] # {"role", "content"}
      THEN [heap |-> h, exc |-> "ValueError", ret |-> <<>>]
      ELSE
        LET role == h[id].role IN
        IF role \notin MessageRoles
        THEN [heap |-> h, exc |-> "ValueError", ret |-> <<>>]
        ELSE
          LET h1 == IF role \in DOMAIN conv
                    THEN [h EXCEPT ![id].role = conv[role]]
                    ELSE h
              last == IF Len(final) > 0 THEN final[Len(final)] ELSE 0
          IN
          IF Len(final) > 0 /\ h1[id].role = h1[last].role
          THEN CleanLoop(
                 [h1 EXCEPT ![last].content = @ \o Separator \o h1[id].content],
                 ml, conv, i + 1, final)
          ELSE CleanLoop(h1, ml, conv, i + 1, Append(final, id))

get_clean_message_list(h, ml, conv) ==
    LET copy == DeepCopy(h, ml)
    IN  CleanLoop(copy.heap, copy.list, conv, 1, <<>>)

\* What the caller sees of a list of references: the dicts themselves.
Deref(h, ids) == [i \in 1..Len(ids) |-> h[ids[i]]]

----------------------------------------------------------------------------
(* Inputs of get_clean_message_list *)

ContentA == <<"a">>
ContentB == <<"b">>

DrawnRoles == {"user", "assistant", "tool-response", "manager"}

WellFormedDicts ==
    [role : DrawnRoles \ {"manager"}, content : {ContentA, ContentB}]
        \cup {[role |-> "manager", content |-> ContentA]}

MalformedDicts ==
    { [role |-> "user"],
      [role |-> "user", content |-> ContentA, name |-> "tool"] }

Dicts == WellFormedDicts \cup MalformedDicts

Conversions ==
    UNION { [D -> {"user", "assistant", "reviewer"}] :
              D \in SUBSET {"tool-response", "user"} }

MaxOf(S) == IF S = {} THEN 0 ELSE CHOOSE x \in S : \A y \in S : y <= x

\* Lists of references over objects 1..k, every object referenced, objects
\* numbered in order of first appearance (the same dict may appear twice).
RefLists(n) ==
    { s \in [1..n -> 1..n] :
        \A i \in 1..n : s[i] <= MaxOf({s[j] : j \in 1..(i - 1)}) + 1 }

InitMsg ==
    /\ pc = "ready"
    /\ \E n \in 0..MaxMsgs : message_list \in RefLists(n)
    /\ heap \in [1..MaxOf({message_list[i] : i \in 1..Len(message_list)}) -> Dicts]
    /\ role_conversions \in Conversions
    /\ msg_out = NoOutcome
    /\ EngineIdle
    /\ VersionIdle
    /\ ProcessorIdle
    /\ CollatorIdle

CallGetCleanMessageList ==
    /\ pc = "ready"
    /\ LET r == get_clean_message_list(heap, message_list, role_conversions)
       IN  /\ heap' = r.heap
           /\ msg_out' = [exc |-> r.exc, ret |-> Deref(r.heap, r.ret)]
           /\ pc' = IF r.exc = "none" THEN "returned" ELSE "raised"
    /\ UNCHANGED <<message_list, role_conversions, engineVars, versionVars,
                   processorVars, collatorVars>>

NextMsg == CallGetCleanMessageList

SpecMsg == InitMsg /\ [][NextMsg]_vars

----------------------------------------------------------------------------
(* Properties of get_clean_message_list *)

\* The caller's messages as values, in list order.
InputMessages == Deref(heap, message_list)

\* True when no dict object occurs twice in the caller's list.
NoAliasing ==
    \A i, j \in 1..Len(message_list) :
        message_list[i] = message_list[j] => i = j

Converted(conv, role) == IF role \in DOMAIN conv THEN conv[role] ELSE role

ValidMessage(m) == DOMAIN m = {"role", "content"} /\ m.role \in MessageRoles

\* One message per maximal run of equal converted roles, contents joined
\* with the separator, computed on values.
RECURSIVE MergedRuns(_, _, _, _)
MergedRuns(msgs, conv, i, acc) ==
    IF i > Len(msgs) THEN acc
    ELSE
      LET r == Converted(conv, msgs[i].role)
          n == Len(acc)
      IN
      IF n > 0 /\ acc[n].role = r
      THEN MergedRuns(msgs, conv, i + 1,
             [acc EXCEPT ![n].content = @ \o Separator \o msgs[i].content])
      ELSE MergedRuns(msgs, conv, i + 1,
             Append(acc, [role |-> r, content |-> msgs[i].content]))

Contents(msgs) == [i \in 1..Len(msgs) |-> msgs[i].content]

AdjacentRolesDiffer(out) ==
    \A i \in 1..(Len(out) - 1) : out[i].role # out[i + 1].role

\* C1: whenever get_clean_message_list returns, no two adjacent messages of
\* the returned list have the same (converted) role.
C1_NoAdjacentSameRole ==
    pc = "returned" => AdjacentRolesDiffer(msg_out.ret)

\* C1 restricted to lists in which every dict object occurs once.
C1_NoAdjacentSameRole_Unaliased ==
    (pc = "returned" /\ NoAliasing) => AdjacentRolesDiffer(msg_out.ret)

\* C2: whenever get_clean_message_list returns, the returned list is the
\* list of maximal runs of equal converted roles in input order, each with
\* the contents of its run joined by the separator.
C2_RunsMerged ==
    pc = "returned" =>
        Contents(msg_out.ret) =
            Contents(MergedRuns(InputMessages, role_conversions, 1, <<>>))

\* C2 restricted to lists in which every dict object occurs once.
C2_RunsMerged_Unaliased ==
    (pc = "returned" /\ NoAliasing) =>
        msg_out.ret = MergedRuns(InputMessages, role_conversions, 1, <<>>)

\* C3: a call of get_clean_message_list, returning or raising, leaves the
\* caller's list, every dict object of the caller and the role_conversions
\* mapping as they were.
C3_ArgumentsUnchanged ==
    [][ /\ message_list' = message_list
        /\ role_conversions' = role_conversions
        /\ \A id \in 1..Len(heap) : heap'[id] = heap[id] ]_vars

\* C3 witness: a call that merged two messages and converted a role.
C3_Witness ==
    /\ pc = "returned"
    /\ Len(msg_out.ret) < Len(message_list)
    /\ \E i \in 1..Len(message_list) :
          heap[message_list[i]].role \in DOMAIN role_conversions

\* C4: the call raises ValueError exactly when some message has a key set
\* other than {role, content} or a role, as given, outside MessageRole;
\* otherwise it returns.
C4_RaisesIffInvalid ==
    pc # "ready" =>
        /\ (pc = "raised") <=>
              (\E i \in 1..Len(InputMessages) : ~ValidMessage(InputMessages[i]))
        /\ (pc = "raised") => msg_out.exc = "ValueError"

\* C4 restricted to lists in which every dict object occurs once.
C4_RaisesIffInvalid_Unaliased ==
    (pc # "ready" /\ NoAliasing) =>
        /\ (pc = "raised") <=>
              (\E i \in 1..Len(InputMessages) : ~ValidMessage(InputMessages[i]))
        /\ (pc = "raised") => msg_out.exc = "ValueError"

----------------------------------------------------------------------------
(* agents/llm_engine.py : HfApiEngine.__call__, TransformersEngine.__call__ *)

\* Python slices on strings: s[-n:] and s[:-n] for n = len(stop_seq).
\* s[-0:] is s[0:], the whole string, and s[:-0] is s[:0], the empty one;
\* an n of len(s) or more gives the whole string, respectively the empty one.
LastChars(s, n) ==
    IF n = 0 \/ n >= Len(s) THEN s ELSE SubSeq(s, Len(s) - n + 1, Len(s))

DropLastChars(s, n) ==
    IF n = 0 \/ n >= Len(s) THEN <<>> ELSE SubSeq(s, 1, Len(s) - n)

\* for stop_seq in stop_sequences: if response[-len(stop_seq):] == stop_seq:
\*     response = response[:-len(stop_seq)]
RECURSIVE RemoveStopSequences(_, _, _)
RemoveStopSequences(resp, stops, i) ==
    IF i > Len(stops) THEN resp
    ELSE
      LET stop_seq == stops[i] IN
      IF LastChars(resp, Len(stop_seq)) = stop_seq
      THEN RemoveStopSequences(DropLastChars(resp, Len(stop_seq)), stops, i + 1)
      ELSE RemoveStopSequences(resp, stops, i + 1)

\* Strings over {a, b} of length lo..hi.
Strings(lo, hi) == UNION { [1..n -> {"a", "b"}] : n \in lo..hi }

StopLists == UNION { [1..n -> Strings(0, MaxStopLen)] : n \in 0..MaxStops }

InitEngine ==
    /\ pc = "ready"
    /\ \E n \in 0..MaxEngineMsgs : message_list \in RefLists(n)
    /\ heap \in [1..MaxOf({message_list[i] : i \in 1..Len(message_list)}) -> Dicts]
    /\ role_conversions = llama_role_conversions
    /\ msg_out = NoOutcome
    /\ engine \in {"HfApiEngine", "TransformersEngine"}
    /\ llm_output \in Strings(0, MaxOutputLen)
    /\ stop_sequences \in
          [is_none : {FALSE}, list : StopLists] \cup
             (IF engine = "TransformersEngine" THEN {NoStopSequences} ELSE {})
    /\ response = NoOutcome
    /\ VersionIdle
    /\ ProcessorIdle
    /\ CollatorIdle

\* HfApiEngine.__call__: clean the messages, ask the Inference API, strip.
HfApiEngineCall ==
    /\ pc = "ready" /\ engine = "HfApiEngine"
    /\ LET r == get_clean_message_list(heap, message_list, llama_role_conversions)
       IN  /\ heap' = r.heap
           /\ msg_out' = [exc |-> r.exc, ret |-> Deref(r.heap, r.ret)]
           /\ IF r.exc # "none"
              THEN /\ response' = [exc |-> r.exc, ret |-> <<>>]
                   /\ pc' = "raised"
              ELSE /\ response' =
                        [exc |-> "none",
                         ret |-> RemoveStopSequences(llm_output, stop_sequences.list, 1)]
                   /\ pc' = "returned"
    /\ UNCHANGED <<message_list, role_conversions, engine, llm_output,
                   stop_sequences, versionVars, processorVars,
                   collatorVars>>

\* TransformersEngine.__call__: clean the messages, run the pipeline, strip
\* when stop_sequences is not None.
TransformersEngineCall ==
    /\ pc = "ready" /\ engine = "TransformersEngine"
    /\ LET r == get_clean_message_list(heap, message_list, llama_role_conversions)
       IN  /\ heap' = r.heap
           /\ msg_out' = [exc |-> r.exc, ret |-> Deref(r.heap, r.ret)]
           /\ IF r.exc # "none"
              THEN /\ response' = [exc |-> r.exc, ret |-> <<>>]
                   /\ pc' = "raised"
              ELSE /\ response' =
                        [exc |-> "none",
                         ret |-> IF ~stop_sequences.is_none
                                 THEN RemoveStopSequences(llm_output, stop_sequences.list, 1)
                                 ELSE llm_output]
                   /\ pc' = "returned"
    /\ UNCHANGED <<message_list, role_conversions, engine, llm_output,
                   stop_sequences, versionVars, processorVars,
                   collatorVars>>

NextEngine == HfApiEngineCall \/ TransformersEngineCall

SpecEngine == InitEngine /\ [][NextEngine]_vars

EndsWith(s, t) ==
    Len(t) <= Len(s) /\ SubSeq(s, Len(s) - Len(t) + 1, Len(s)) = t

\* C5: when either engine returns and every supplied stop sequence is
\* non-empty, the returned string ends with none of the stop sequences.
C5_NoTrailingStopSequence ==
    (/\ pc = "returned"
     /\ \A i \in 1..Len(stop_sequences.list) : Len(stop_sequences.list[i]) > 0)
    => \A i \in 1..Len(stop_sequences.list) :
          ~EndsWith(response.ret, stop_sequences.list[i])

\* C5 for a single stop sequence: one trailing occurrence is removed.
C5_SingleStopRemovedOnce ==
    (/\ pc = "returned"
     /\ Len(stop_sequences.list) = 1
     /\ Len(stop_sequences.list[1]) > 0
     /\ EndsWith(llm_output, stop_sequences.list[1]))
    => response.ret \o stop_sequences.list[1] = llm_output

----------------------------------------------------------------------------
(* utils/versions.py : ops, require_version and its wrappers *)

OpLt == <<"<">>
OpLe == <<"<", "=">>
OpEq == <<"=", "=">>
OpNe == <<"!", "=">>
OpGe == <<">", "=">>
OpGt == <<">">>

\* Variant of ops in which ">=" is bound to operator.gt.
opsBoundaryDropped(op, c) ==
    CASE op = OpLt -> c < 0
      [] op = OpLe -> c <= 0
      [] op = OpEq -> c = 0
      [] op = OpNe -> c # 0
      [] op = OpGe -> c > 0
      [] op = OpGt -> c > 0

\* ops: operator string -> comparison, given the three-way order c of the
\* two versions (-1, 0, 1).
ops(op, c) ==
    CASE op = OpLt -> c < 0
      [] op = OpLe -> c <= 0
      [] op = OpEq -> c = 0
      [] op = OpNe -> c # 0
      [] op = OpGe -> c >= 0
      [] op = OpGt -> c > 0

opsKeys == {OpLt, OpLe, OpEq, OpNe, OpGe, OpGt}

\* Character classes of the regular expression
\*   ^([^\!=<>\s]+)([\s\!=<>]{1,2})(.+)
Whitespace == {" ", "\t", "\n"}
OperatorClass == {"!", "=", "<", ">"} \cup Whitespace

\* Length of the longest prefix of s, from position i on, whose characters
\* satisfy: in class cls when inside is TRUE, outside it when FALSE.
RECURSIVE RunLength(_, _, _, _)
RunLength(s, i, cls, inside) ==
    IF i > Len(s) \/ ((s[i] \in cls) # inside) THEN 0
    ELSE 1 + RunLength(s, i + 1, cls, inside)

\* re.findall(...)[0], or no match.  Group 1 is greedy and can only end at
\* the first operator-class character; group 2 takes two characters when
\* both are in its class and one character is left for group 3, else one;
\* group 3 is every character up to a newline, at least one.
ReMatch(s) ==
    LET n1 == RunLength(s, 1, OperatorClass, FALSE)
        n2max == RunLength(s, n1 + 1, OperatorClass, TRUE)
        rest(n2) == RunLength(s, n1 + n2 + 1, {"\n"}, FALSE)
        n2 == IF n2max >= 2 /\ rest(2) >= 1 THEN 2
              ELSE IF n2max >= 1 /\ rest(1) >= 1 THEN 1
              ELSE 0
    IN  IF n1 = 0 \/ n2 = 0
        THEN [matched |-> FALSE, pkg |-> <<>>, op |-> <<>>, want_ver |-> <<>>]
        ELSE [matched |-> TRUE,
              pkg |-> SubSeq(s, 1, n1),
              op |-> SubSeq(s, n1 + 1, n1 + n2),
              want_ver |-> SubSeq(s, n1 + n2 + 1, n1 + n2 + rest(n2))]

Digits == <<"0", "1", "2", "3", "4", "5", "6", "7", "8", "9">>
DigitSet == {Digits[i] : i \in 1..Len(Digits)}
DigitVal(c) == (CHOOSE i \in 1..Len(Digits) : Digits[i] = c) - 1

\* str(x) for a non-negative int.
RECURSIVE IntToStr(_)
IntToStr(n) ==
    IF n < 10 THEN <<Digits[n + 1]>>
    ELSE IntToStr(n \div 10) \o <<Digits[(n % 10) + 1]>>

\* ".".join([str(x) for x in xs])
RECURSIVE JoinDots(_)
JoinDots(xs) ==
    IF Len(xs) = 0 THEN <<>>
    ELSE IF Len(xs) = 1 THEN IntToStr(xs[1])
    ELSE IntToStr(xs[1]) \o <<".">> \o JoinDots(Tail(xs))

\* packaging.version.parse on release-only versions: surrounding whitespace
\* is ignored, the rest must be decimal numbers separated by single dots.
\* The result is the release tuple, or invalid.
Strip(s) ==
    LET lead == RunLength(s, 1, Whitespace, TRUE)
        body == SubSeq(s, lead + 1, Len(s))
        Rev(t) == [i \in 1..Len(t) |-> t[Len(t) + 1 - i]]
        trail == RunLength(Rev(body), 1, Whitespace, TRUE)
    IN  SubSeq(body, 1, Len(body) - trail)

RECURSIVE ParseRelease(_, _, _, _, _)
ParseRelease(s, i, cur, ndigits, acc) ==
    IF i > Len(s)
    THEN IF ndigits = 0 THEN [valid |-> FALSE, release |-> <<>>]
         ELSE [valid |-> TRUE, release |-> Append(acc, cur)]
    ELSE IF s[i] \in DigitSet
    THEN ParseRelease(s, i + 1, cur * 10 + DigitVal(s[i]), ndigits + 1, acc)
    ELSE IF s[i] = "." /\ ndigits > 0
    THEN ParseRelease(s, i + 1, 0, 0, Append(acc, cur))
    ELSE [valid |-> FALSE, release |-> <<>>]

version_parse(s) == ParseRelease(Strip(s), 1, 0, 0, <<>>)

\* Order of two release tuples: component-wise on numbers, the shorter one
\* padded with zeros.  -1, 0 or 1.
RECURSIVE CompareRelease(_, _, _)
CompareRelease(a, b, i) ==
    IF i > Len(a) /\ i > Len(b) THEN 0
    ELSE
      LET x == IF i <= Len(a) THEN a[i] ELSE 0
          y == IF i <= Len(b) THEN b[i] ELSE 0
      IN  IF x < y THEN -1 ELSE IF x > y THEN 1 ELSE CompareRelease(a, b, i + 1)

\* Text chunks of the messages.
FormatErrorText ==
    <<"requirement needs to be in the pip package format, .e.g., package_a==1.23, or package_b>=1.23, but got ">>
OperatorErrorText == <<"need one of ['<', '<=', '==', '!=', '>=', '>'], but got ">>
FoundText == <<" is required for a normal functioning of this module, but found ">>
NotInstalledText ==
    <<" is required for a normal functioning of this module, but it is not installed. ">>
EqEq == <<"==">>
Newline == <<"\n">>

Python == <<"p", "y", "t", "h", "o", "n">>

\* Lines 52-55: the message of the python special case.
PythonConflictMessage(req, pkg, got_ver) ==
    req \o FoundText \o pkg \o EqEq \o got_ver \o <<".">>

\* Variant of NotInstalledMessage without the parentheses around the
\* conditional expression.
NotInstalledMessageUnparenthesised(req, h) ==
    IF ~h.is_none THEN req \o NotInstalledText \o Newline \o h.text ELSE <<>>

\* Lines 61-65: f"..." + ("\n" + hint if hint is not None else "")
NotInstalledMessage(req, h) ==
    req \o NotInstalledText \o (IF ~h.is_none THEN Newline \o h.text ELSE <<>>)

\* Lines 68-74: f"..." + "\n" + hint if hint is not None else ""
\* The conditional expression binds weaker than +.
VersionConflictMessage(req, pkg, got_ver, h) ==
    IF ~h.is_none
    THEN req \o FoundText \o pkg \o EqEq \o got_ver \o <<". ">> \o Newline \o h.text
    ELSE <<>>

\* ops[op](version.parse(got_ver), version.parse(want_ver)):
\* [raised, holds].  A string packaging cannot parse raises InvalidVersion,
\* or, with a packaging that still has LegacyVersion, sorts before every
\* release.
CompareVersions(op, got_ver, want_ver, legacy) ==
    LET got == version_parse(got_ver)
        want == version_parse(want_ver)
    IN  IF (~got.valid \/ ~want.valid) /\ ~legacy
        THEN [raised |-> TRUE, holds |-> FALSE]
        ELSE [raised |-> FALSE,
              holds |-> ops(op,
                  IF got.valid /\ want.valid
                  THEN CompareRelease(got.release, want.release, 1)
                  ELSE IF got.valid THEN 1
                  ELSE IF want.valid THEN -1
                  ELSE 0)]

\* Variant of OperatorKnown in which the operator check is missing.
OperatorKnownAlways(op) == TRUE

\* Line 46: op in ops
OperatorKnown(op) == op \in opsKeys

Raise(kind, message, did_compare) ==
    [exc |-> kind, msg |-> message, compared |-> did_compare]

require_version(req, h, installed, vinfo, legacy) ==
    LET m == ReMatch(req) IN
    IF ~m.matched
    THEN Raise("ValueError", FormatErrorText \o req, FALSE)
    ELSE IF ~OperatorKnown(m.op)
    THEN Raise("ValueError", OperatorErrorText \o m.op, FALSE)
    ELSE IF m.pkg = Python
    THEN LET got_ver == JoinDots(vinfo)
             c == CompareVersions(m.op, got_ver, m.want_ver, legacy)
         IN  IF c.raised THEN Raise("InvalidVersion", <<>>, FALSE)
             ELSE IF ~c.holds
             THEN Raise("VersionConflict",
                        PythonConflictMessage(req, m.pkg, got_ver), TRUE)
             ELSE Raise("none", <<>>, TRUE)
    ELSE IF m.pkg \notin DOMAIN installed
    THEN Raise("DistributionNotFound", NotInstalledMessage(req, h), FALSE)
    ELSE IF m.op \notin opsKeys
    THEN Raise("KeyError", <<>>, FALSE)
    ELSE LET got_ver == installed[m.pkg]
             c == CompareVersions(m.op, got_ver, m.want_ver, legacy)
         IN  IF c.raised THEN Raise("InvalidVersion", <<>>, FALSE)
             ELSE IF ~c.holds
             THEN Raise("VersionConflict",
                        VersionConflictMessage(req, m.pkg, got_ver, h), TRUE)
             ELSE Raise("none", <<>>, TRUE)

CoreHint ==
    [is_none |-> FALSE,
     text |-> <<"Try: pip install transformers -U or pip install -e '.[dev]' if you're working with git master">>]

ExamplesHint ==
    [is_none |-> FALSE,
     text |-> <<"Try: pip install -r examples/requirements.txt">>]

require_version_core(req, installed, vinfo, legacy) ==
    require_version(req, CoreHint, installed, vinfo, legacy)

require_version_examples(req, installed, vinfo, legacy) ==
    require_version(req, ExamplesHint, installed, vinfo, legacy)

----------------------------------------------------------------------------
(* dependency_versions_table.py and the inputs of require_version *)

Tqdm == <<"t", "q", "d", "m">>
Tokenizers == <<"t", "o", "k", "e", "n", "i", "z", "e", "r", "s">>

\* Entries of deps, one for each shape that occurs in the table.
deps ==
    { <<"t", "q", "d", "m", ">", "=", "4", ".", "2", "7">>,
      <<"b", "l", "a", "c", "k", "~", "=", "2", "3", ".", "1">>,
      <<"t", "o", "k", "e", "n", "i", "z", "e", "r", "s", ">", "=", "0", ".", "1", "4", ",", "<", "0", ".", "1", "9">>,
      <<"p", "y", "t", "h", "o", "n", ">", "=", "3", ".", "8", ".", "0">>,
      <<"f", "i", "l", "e", "l", "o", "c", "k">>,
      <<"d", "a", "t", "a", "s", "e", "t", "s", "!", "=", "2", ".", "5", ".", "0">>,
      <<"d", "i", "l", "l", "<", "0", ".", "3", ".", "5">>,
      <<"a", "v", "=", "=", "9", ".", "2", ".", "0">> }

V_4_9 == <<"4", ".", "9">>
V_4_10 == <<"4", ".", "1", "0">>
V_4_27 == <<"4", ".", "2", "7">>
V_4_27_0 == <<"4", ".", "2", "7", ".", "0">>
V_3_8_0 == <<"3", ".", "8", ".", "0">>
V_0_19_1 == <<"0", ".", "1", "9", ".", "1">>

DrawnNames == {Tqdm, Python}
DrawnVersions == {V_4_9, V_4_10, V_4_27, V_4_27_0, V_3_8_0}
DrawnOperators ==
    opsKeys \cup { <<>>, <<"=">>, <<"~", "=">>, <<" ", ">", "=">>,
                   <<"=", "=", "=">> }
DrawnRests ==
    DrawnVersions \cup { <<>>, <<"4", ".", "9", ",", "<", "5">>, <<" ", "4", ".", "2", "7">> }

Requirements ==
    { n \o o \o r : n \in DrawnNames, o \in DrawnOperators, r \in DrawnRests }
        \cup deps

SitePackages ==
    { f \in UNION { [D -> DrawnVersions \cup {V_0_19_1}] :
                      D \in SUBSET {Tqdm, Tokenizers} } :
        /\ Tqdm \in DOMAIN f => f[Tqdm] \in {V_4_9, V_4_10, V_4_27, V_4_27_0}
        /\ Tokenizers \in DOMAIN f => f[Tokenizers] = V_0_19_1 }

CustomHint == [is_none |-> FALSE, text |-> <<"Try: pip install -U tqdm">>]

InitVersion ==
    /\ pc = "ready"
    /\ MsgIdle
    /\ EngineIdle
    /\ ProcessorIdle
    /\ CollatorIdle
    /\ requirement \in Requirements
    /\ hint \in {NoHint, CustomHint}
    /\ site_packages \in SitePackages
    /\ version_info \in {<<3, 7, 9>>, <<3, 10, 12>>}
    /\ legacy_packaging \in BOOLEAN
    /\ rv_out = NoVersionOutcome

Finish(out) ==
    /\ rv_out' = out
    /\ pc' = IF out.exc = "none" THEN "returned" ELSE "raised"
    /\ UNCHANGED <<msgVars, engineVars, processorVars, collatorVars, requirement,
                   site_packages, version_info, legacy_packaging>>

CallRequireVersion ==
    /\ pc = "ready"
    /\ Finish(require_version(requirement, hint, site_packages, version_info,
                              legacy_packaging))
    /\ UNCHANGED hint

CallRequireVersionCore ==
    /\ pc = "ready"
    /\ hint' = CoreHint
    /\ Finish(require_version_core(requirement, site_packages, version_info,
                                   legacy_packaging))

CallRequireVersionExamples ==
    /\ pc = "ready"
    /\ hint' = ExamplesHint
    /\ Finish(require_version_examples(requirement, site_packages, version_info,
                                       legacy_packaging))

NextVersion ==
    CallRequireVersion \/ CallRequireVersionCore \/ CallRequireVersionExamples

SpecVersion == InitVersion /\ [][NextVersion]_vars

----------------------------------------------------------------------------
(* Properties of require_version *)

\* The release tuples of the drawn version strings, written out.
ReleaseTable(v) ==
    CASE v = V_4_9 -> <<4, 9, 0>>
      [] v = V_4_10 -> <<4, 10, 0>>
      [] v = V_4_27 -> <<4, 27, 0>>
      [] v = V_4_27_0 -> <<4, 27, 0>>
      [] v = V_3_8_0 -> <<3, 8, 0>>
      [] v = V_0_19_1 -> <<0, 19, 1>>

\* Version ordering of three-component releases with components below 100.
ReleaseKey(t) == t[1] * 10000 + t[2] * 100 + t[3]

OperatorMeaning(op, got, want) ==
    CASE op = OpLt -> got < want
      [] op = OpLe -> got <= want
      [] op = OpEq -> got = want
      [] op = OpNe -> got # want
      [] op = OpGe -> got >= want
      [] op = OpGt -> got > want

InstalledKey(n) ==
    IF n = Python THEN ReleaseKey(version_info)
    ELSE ReleaseKey(ReleaseTable(site_packages[n]))

\* C6: for a requirement pkg OP ver with OP one of the six operators and pkg
\* installed (or pkg = python), require_version returns exactly when
\* installed OP ver holds in version ordering and raises VersionConflict
\* otherwise.
C6_ReturnsIffVersionOrderHolds ==
    \A n \in DrawnNames, o \in opsKeys, v \in DrawnVersions :
        (/\ pc # "ready"
         /\ requirement = n \o o \o v
         /\ (n = Python \/ n \in DOMAIN site_packages))
        => IF OperatorMeaning(o, InstalledKey(n), ReleaseKey(ReleaseTable(v)))
           THEN pc = "returned" /\ rv_out.exc = "none"
           ELSE pc = "raised" /\ rv_out.exc = "VersionConflict"

\* C6 witness: tqdm 4.9 is installed, tqdm>=4.10 is required, and the call
\* raised VersionConflict (4.10 is greater than 4.9).
C6_Witness ==
    /\ pc = "raised"
    /\ requirement = Tqdm \o OpGe \o V_4_10
    /\ Tqdm \in DOMAIN site_packages
    /\ site_packages[Tqdm] = V_4_9
    /\ rv_out.exc = "VersionConflict"

\* C7: no entry of the dependency table is rejected with a ValueError about
\* the format or the operator, or left unparsed.
C7_PipSyntaxAccepted ==
    (pc # "ready" /\ requirement \in deps)
        => rv_out.exc \notin {"ValueError", "InvalidVersion"}

\* C7 for the entries with one constraint and one of the six operators.
C7_SingleConstraintAccepted ==
    \A n \in DrawnNames, o \in opsKeys, v \in DrawnVersions :
        (pc # "ready" /\ requirement = n \o o \o v)
            => rv_out.exc \notin {"ValueError", "InvalidVersion"}

Contains(s, t) ==
    \E i \in 1..(Len(s) - Len(t) + 1) : SubSeq(s, i, i + Len(t) - 1) = t

FoundVersion ==
    LET pkg == ReMatch(requirement).pkg
    IN  IF pkg = Python THEN JoinDots(version_info) ELSE site_packages[pkg]

\* C8: when the installed version does not satisfy a requirement pkg OP ver,
\* the message of the VersionConflict names the requirement and the version
\* found, and ends with the hint when a hint is given; also when the hint is
\* None.
C8_ConflictMessage ==
    \A n \in DrawnNames, o \in opsKeys, v \in DrawnVersions :
        (/\ pc = "raised"
         /\ requirement = n \o o \o v
         /\ rv_out.exc = "VersionConflict")
        => /\ Contains(rv_out.msg, requirement)
           /\ Contains(rv_out.msg, FoundVersion)
           /\ ~hint.is_none => EndsWith(rv_out.msg, Newline \o hint.text)

\* C8 for a package other than python and a hint that is given.
C8_ConflictMessage_WithHint ==
    (/\ pc = "raised" /\ rv_out.exc = "VersionConflict"
     /\ ReMatch(requirement).pkg # Python /\ ~hint.is_none)
        => /\ Contains(rv_out.msg, requirement)
           /\ Contains(rv_out.msg, FoundVersion)
           /\ EndsWith(rv_out.msg, Newline \o hint.text)

C9_WitnessNotInstalled ==
    /\ pc = "raised"
    /\ rv_out.exc = "DistributionNotFound"
    /\ ~hint.is_none

----------------------------------------------------------------------------
(* The processors of tests/test_processor_clip.py and                      *)
(* tests/wav2vec2_with_lm/test_processor_wav2vec2_with_lm.py               *)

MaxCalls == 3

\* The two components a processor wraps.  Their outputs are told apart by
\* the key they carry, as in the tests (input_ids against input_values or
\* pixel_values).
feature_extractor(x) == [key |-> "input_values", of |-> x]
tokenizer(x) == [key |-> "input_ids", of |-> x]

ProcessorInputs == {"lower newer", "This is a test string", "raw input"}

\* processor(x): forwarded to the current processor.
ProcessorForward(target, x) ==
    IF target = "tokenizer" THEN tokenizer(x) ELSE feature_extractor(x)

\* Variant of TargetOnExit in which leaving the context restores nothing.
TargetOnExitKept == "tokenizer"

\* What as_target_processor() makes current on entry and on exit.
TargetOnEnter == "tokenizer"
TargetOnExit == "feature_extractor"

InitProcessor ==
    /\ pc = "ready"
    /\ MsgIdle
    /\ EngineIdle
    /\ VersionIdle
    /\ CollatorIdle
    /\ current_processor = "feature_extractor"
    /\ context = "outside"
    /\ calls = <<>>

\* with processor.as_target_processor(): ...
EnterTargetProcessor ==
    /\ context = "outside"
    /\ current_processor' = TargetOnEnter
    /\ context' = "inside"
    /\ UNCHANGED <<pc, msgVars, engineVars, versionVars, collatorVars, calls>>

\* leaving the with block
ExitTargetProcessor ==
    /\ context = "inside"
    /\ current_processor' = TargetOnExit
    /\ context' = "outside"
    /\ UNCHANGED <<pc, msgVars, engineVars, versionVars, collatorVars, calls>>

\* processor(input)
ProcessorCall ==
    /\ Len(calls) < MaxCalls
    /\ \E x \in ProcessorInputs :
          calls' = Append(calls,
                     [input |-> x,
                      inside |-> (context = "inside"),
                      result |-> ProcessorForward(current_processor, x)])
    /\ UNCHANGED <<pc, msgVars, engineVars, versionVars, collatorVars, current_processor,
                   context>>

NextProcessor == EnterTargetProcessor \/ ExitTargetProcessor \/ ProcessorCall

SpecProcessor == InitProcessor /\ [][NextProcessor]_vars

----------------------------------------------------------------------------
(* default_data_collator, as exercised by tests/test_trainer.py            *)

MaxBatch == 2

\* A Python value of a feature: None, an int, a float, or a list of ints or
\* of floats.  v holds the numbers: none for None, one for an int or a
\* float, the elements for a list.  An int is written as its value, a float
\* as its value in tenths (5 is 0.5).
NoneValue == [type |-> "none", v |-> <<>>]
IntValue(n) == [type |-> "int", v |-> <<n>>]
FloatValue(tenths) == [type |-> "float", v |-> <<tenths>>]
IntList(xs) == [type |-> "int_list", v |-> xs]
FloatList(xs) == [type |-> "float_list", v |-> xs]

\* The feature key the labels are taken from, decided on the first feature:
\* "label" when present and not None, else "label_ids" when present and not
\* None, else no labels.
LabelKey(first) ==
    IF "label" \in DOMAIN first /\ first["label"].type # "none" THEN "label"
    ELSE IF "label_ids" \in DOMAIN first /\ first["label_ids"].type # "none"
    THEN "label_ids"
    ELSE None

\* Variant of LabelDtype in which every label tensor is torch.long.
LabelDtypeAlwaysLong(value) == "long"

\* torch.long for int labels (or lists of ints), torch.float otherwise.
LabelDtype(value) ==
    IF value.type \in {"int", "int_list"} THEN "long" ELSE "float"

\* torch.tensor(x, dtype=...) on one number: an int stored as float keeps
\* its value, a float stored as long is truncated.
ToDtype(type, n, dtype) ==
    IF type \in {"int", "int_list"}
    THEN (IF dtype = "long" THEN n ELSE n * 10)
    ELSE (IF dtype = "long" THEN n \div 10 ELSE n)

TensorRow(value, dtype) ==
    IF value.type \in {"int", "float"}
    THEN ToDtype(value.type, value.v[1], dtype)
    ELSE [j \in 1..Len(value.v) |-> ToDtype(value.type, value.v[j], dtype)]

\* torch.tensor([f[k] for f in features], dtype=dtype): one row per feature,
\* in list order.
Stack(fs, k, dtype) ==
    [dtype |-> dtype, rows |-> [i \in 1..Len(fs) |-> TensorRow(fs[i][k], dtype)]]

default_data_collator(fs) ==
    LET first == fs[1]
        lk == LabelKey(first)
        others == DOMAIN first \ {"label", "label_ids"}
        keys == others \cup (IF lk = None THEN {} ELSE {"labels"})
    IN  [k \in keys |->
            IF k = "labels" THEN Stack(fs, lk, LabelDtype(first[lk]))
            ELSE Stack(fs, k, "long")]

\* Features as the tests build them: every feature of a batch has the same
\* keys and the same kind of label.
InputRows == {<<0, 1, 2>>, <<3, 4, 5>>}

LabelValues(kind) ==
    CASE kind = "none" -> {NoneValue}
      [] kind = "int" -> {IntValue(0), IntValue(1)}
      [] kind = "float" -> {FloatValue(5), FloatValue(25)}
      [] kind = "int_list" -> {IntList(<<0, 1, 2>>), IntList(<<2, 1, 0>>)}
      [] kind = "float_list" -> {FloatList(<<5, 15>>)}

Feature(key, label, row) ==
    [k \in {key, "inputs"} |-> IF k = key THEN label ELSE IntList(row)]

FeatureLists(n) ==
    UNION {
        [1..n -> { Feature(key, l, r) : l \in LabelValues(kind), r \in InputRows }] :
            key \in {"label"}, kind \in {"none", "int", "float"} }
    \cup UNION {
        [1..n -> { Feature(key, l, r) : l \in LabelValues(kind), r \in InputRows }] :
            key \in {"label_ids"}, kind \in {"none", "int_list", "float_list"} }

InitCollator ==
    /\ pc = "ready"
    /\ MsgIdle
    /\ EngineIdle
    /\ VersionIdle
    /\ ProcessorIdle
    /\ \E n \in 1..MaxBatch : features \in FeatureLists(n)
    /\ batch = <<>>

\* batch = default_data_collator(features)
CallDefaultDataCollator ==
    /\ pc = "ready"
    /\ batch' = default_data_collator(features)
    /\ pc' = "returned"
    /\ UNCHANGED <<msgVars, engineVars, versionVars, processorVars, features>>

NextCollator == CallDefaultDataCollator

SpecCollator == InitCollator /\ [][NextCollator]_vars

\* The key that holds the label of a feature, and the label itself.
FeatureLabelKey(f) == IF "label" \in DOMAIN f THEN "label" ELSE "label_ids"
FeatureLabel(f) == f[FeatureLabelKey(f)]

\* A value as a tensor row holds it: a number, or a sequence of numbers.
RowOf(value) == IF value.type \in {"int", "float"} THEN value.v[1] ELSE value.v

====
